---- MODULE Spec2Model ----
(***************************************************************************)
(* A model of dejsonlz4 (src/dejsonlz4.c) and of its reference encoder     *)
(* jsonlz4 (src/ref_compress/jsonlz4.c): the mozLz4 container codec, the   *)
(* read-to-memory loop file_to_mem, and the two main() functions with      *)
(* their resources (heap blocks, FILE handles, the named output file).     *)
(*                                                                         *)
(* Sizes.  size_t is 32 or 64 bits wide depending on the build (variable   *)
(* lp64); int is 32 bits.  TLC's integers are 32-bit, so a size_t value is *)
(* kept as a Num: four 16-bit limbs, least significant first.  C's int     *)
(* values are TLC integers.                                                *)
(***************************************************************************)
EXTENDS Integers, Sequences, FiniteSets, TLC

VARIABLES
    \* ---- the build and the environment
    lp64,        \* TRUE: size_t is 64 bits wide (LP64); FALSE: 32 bits (ILP32)
    input,       \* the bytes of the input source (stdin and the file IN alike)
    outfile,     \* the named output file: whether it exists, and its bytes
    stdout_,     \* the bytes standard output has received
    pending,     \* the bytes fwrite has put in ofile's buffer, not yet flushed
    diag,        \* the text messages printed so far, each <<stream, message>>
    faults,      \* the failures of library calls that have occurred so far
    heap,        \* address -> block (live, cap, bytes)
    badfree,     \* TRUE once a block that is not live was freed
    fopened,     \* the FILE handles fopen has returned so far
    fclosed,     \* handle -> number of fclose calls on it
    \* ---- the process: which program runs, and main()'s locals
    run,         \* 1: the program started by Init; 2: the decoder fed by run 1
    orig,        \* the input of run 1 (kept to compare a round trip against)
    prog,        \* "dejsonlz4" or "jsonlz4"
    argv,        \* the operands argv[1..argc-1]
    pc,          \* the position in main / file_to_mem
    exitcode,    \* Running, or the process's exit status
    isize, osize, iname, oname, idata, odata, ofile, rv, dsize, csize,
    called,      \* the primitives of lz4.c called so far
    \* ---- file_to_mem's locals
    fname, buf, ftm_rv, buf_size, got, f, f_eof, f_err,
    \* ---- the header functions applied to a drawn size (SpecHdr)
    hpc, hn, hdr, hsize

ftmVars  == <<fname, buf, ftm_rv, buf_size, got, f, f_eof, f_err>>
mainVars == <<isize, osize, iname, oname, idata, odata, ofile, rv, dsize, csize, called>>
envVars  == <<input, outfile, stdout_, pending, diag, faults, heap, badfree, fopened, fclosed>>
procVars == <<run, orig, prog, argv, pc, exitcode>>
hdrVars  == <<hpc, hn, hdr, hsize>>
vars     == <<lp64, envVars, procVars, mainVars, ftmVars, hdrVars>>

(***************************************************************************)
(* Bounds of the model.                                                    *)
(***************************************************************************)
\* longest raw input of the encoder
MaxLen == 2
\* longest compressed payload of a decoder input
MaxPayload == 2
\* number of heap addresses
HeapSlots == 3
\* how far from the start, the middle and the end of a read of a long input
\* its read errors are placed
ErrNear == 1

(***************************************************************************)
(* Arithmetic on size_t values.                                            *)
(***************************************************************************)
Base == 2^16

Num == [1..4 -> 0..(Base - 1)]

\* The Num of an integer 0 <= n < 2^31.
NumOf(n) == <<n % Base, n \div Base, 0, 0>>

Zero == NumOf(0)

\* a + b modulo 2^64
NumAdd(a, b) ==
    LET s1 == a[1] + b[1]
        s2 == a[2] + b[2] + (s1 \div Base)
        s3 == a[3] + b[3] + (s2 \div Base)
        s4 == a[4] + b[4] + (s3 \div Base)
    IN  <<s1 % Base, s2 % Base, s3 % Base, s4 % Base>>

\* a - b modulo 2^64
NumSub(a, b) ==
    LET d1 == a[1] - b[1]
        d2 == a[2] - b[2] + (d1 \div Base)
        d3 == a[3] - b[3] + (d2 \div Base)
        d4 == a[4] - b[4] + (d3 \div Base)
    IN  <<d1 % Base, d2 % Base, d3 % Base, d4 % Base>>

NumLt(a, b) ==
    \E i \in 1..4 : a[i] < b[i] /\ \A j \in (i + 1)..4 : a[j] = b[j]

NumLe(a, b) == a = b \/ NumLt(a, b)

NumMin(a, b) == IF NumLt(a, b) THEN a ELSE b

\* TRUE iff the value is below 2^31, that is, a TLC integer can hold it.
Small(a) == a[3] = 0 /\ a[4] = 0 /\ a[2] < Base \div 2

\* The integer a Small Num stands for.
IntOf(a) == a[2] * Base + a[1]

\* A value reduced to the width of size_t.
ToSizeT(a) == IF lp64 THEN a ELSE <<a[1], a[2], 0, 0>>

\* size_t arithmetic: modulo 2^64 or 2^32.
SzAdd(a, b) == ToSizeT(NumAdd(a, b))
SzSub(a, b) == ToSizeT(NumSub(a, b))

\* Conversion int -> size_t (C11 6.3.1.3p2): the value modulo 2^width, which
\* sign-extends a negative int.
IntToSizeT(v) ==
    ToSizeT(IF v >= 0 THEN NumOf(v)
            ELSE <<v % Base, (v \div Base) % Base, Base - 1, Base - 1>>)

\* Conversion size_t -> int as every supported build does it: the low 32 bits,
\* read as two's complement.
SizeTToInt(a) ==
    IF a[2] >= Base \div 2 THEN (a[2] - Base) * Base + a[1] ELSE a[2] * Base + a[1]

(***************************************************************************)
(* The container header.                                                   *)
(***************************************************************************)
mozlz4_magic == <<109, 111, 122, 76, 122, 52, 48, 0>>

decomp_size == 4

magic_size == Len(mozlz4_magic)

HeaderLen == magic_size + decomp_size

\* (x >> (8 * k)) & 0xff for a size_t x and k in 0..3
ByteOfSize(x, k) ==
    LET limb == x[(k \div 2) + 1]
    IN  IF k % 2 = 0 THEN limb % 256 ELSE limb \div 256

\* jsonlz4.c main, lines 139-140: the 4 size bytes written after the magic.
encodeSize(n) == [k \in 1..decomp_size |-> ByteOfSize(n, k - 1)]

\* jsonlz4.c main, lines 138-140.
buildHeader(n) == mozlz4_magic \o encodeSize(n)

\* (unsigned char)c << s, evaluated in int.  For c >= 128 and s = 24 the
\* product does not fit in int: the shift is undefined, and the builds the
\* program ships for produce the two's complement wrap, a negative int.
ShiftLeftInt(c, s) ==
    IF s = 24 /\ c >= 128 THEN (c - 256) * 2^s ELSE c * 2^s

\* One pass of the body of the loop of dejsonlz4.c, line 136:
\* osize += (unsigned char)idata[i] << (8 * (i - magic_size)); k = i - magic_size.
RECURSIVE decodeStep(_, _, _)
decodeStep(b, k, acc) ==
    IF k >= decomp_size THEN acc
    ELSE decodeStep(b, k + 1, SzAdd(acc, IntToSizeT(ShiftLeftInt(b[k + 1], 8 * k))))

\* dejsonlz4.c main, lines 135-136, on the 4 bytes after the magic; osize is 0
\* before the loop.
decodeSize(b) == decodeStep(b, 0, Zero)

(***************************************************************************)
(* Byte strings, the heap and the FILE handles.                            *)
(***************************************************************************)
\* A source of bytes: len bytes, of which head are the first; the bytes after
\* head, if any, are zero.  A source that fails does so once it has delivered
\* err bytes: the read that asks for more gets those and the error.
Source(head, len) == [len |-> len, head |-> head, fails |-> FALSE, err |-> Zero]

Failing(src, e) == [src EXCEPT !.fails = TRUE, !.err = e]

\* The first n bytes (n a Num) of a source, as far as head spells them out.
HeadTake(src, n) ==
    IF Small(n) /\ IntOf(n) < Len(src.head) THEN SubSeq(src.head, 1, IntOf(n))
    ELSE src.head

NULL == 0

Addr == 1..HeapSlots

NoBlock == [live |-> FALSE, cap |-> Zero, bytes |-> <<>>]

Live == {a \in Addr : heap[a].live}

\* The address an allocation returns: the lowest one not in use.
FreshAddr == CHOOSE a \in Addr \ Live : \A b \in Addr \ Live : a <= b

\* No build has the address space for an object of half the range of a 64-bit
\* size_t or more; a 32-bit build may be given any size below 2^32.
Allocatable(size) == ~lp64 \/ size[4] < Base \div 2

\* The heap after free(p), p # NULL.
Freed(h, p) == [h EXCEPT ![p] = NoBlock]

\* FILE handles.
NullFile == "NULL"
StdStreams == {"stdin", "stdout"}
Handles == StdStreams \cup {"IN", "OUT"}

\* A char * that is the null pointer.
NullStr == "(null)"

\* dejsonlz4.c lines 64-72 (jsonlz4.c lines 67-75), built without _WIN32.
ensure_binary(h) == 0

(***************************************************************************)
(* file_to_mem: dejsonlz4.c lines 77-106 (jsonlz4.c lines 80-109, the same *)
(* text).  One action per statement group; pc names the next one.          *)
(***************************************************************************)
INITIAL_ALLOC_SIZE == 32 * 1024

\* What the caller's variables become when file_to_mem returns r, having
\* stored size through out_size or not.
ftm_return(r, stored, size) ==
    /\ idata' = r
    /\ isize' = IF stored THEN size ELSE isize
    /\ pc' = "chk_read"

\* lines 79-85: the locals, fopen or stdin, the early return.
ftm_open ==
    /\ pc = "ftm_open"
    /\ buf' = NULL /\ ftm_rv' = NULL /\ buf_size' = Zero /\ got' = Zero
    /\ f_eof' = FALSE /\ f_err' = FALSE
    /\ \/ /\ fname # NullStr            \* fopen(fname, "rb") succeeds
          /\ f' = "IN"
          /\ fopened' = fopened \cup {"IN"}
          /\ pc' = "ftm_grow"
          /\ UNCHANGED <<faults, idata, isize>>
       \/ /\ fname # NullStr            \* fopen fails: return 0
          /\ f' = NullFile
          /\ faults' = faults \cup {"fopen_in"}
          /\ ftm_return(NULL, FALSE, Zero)
          /\ UNCHANGED fopened
       \/ /\ fname = NullStr            \* stdin; ensure_binary(stdin) is 0
          /\ f' = "stdin"
          /\ ensure_binary("stdin") = 0
          /\ pc' = "ftm_grow"
          /\ UNCHANGED <<faults, fopened, idata, isize>>
    /\ UNCHANGED <<lp64, input, outfile, stdout_, pending, diag, heap, badfree,
                   fclosed, run, orig, prog, argv, exitcode, osize, iname, oname,
                   odata, ofile, rv, dsize, csize, called, fname, hdrVars>>

\* line 88: buf_size = got ? got * 2 : INITIAL_ALLOC_SIZE
next_buf_size(g) == IF g # Zero THEN SzAdd(g, g) ELSE NumOf(INITIAL_ALLOC_SIZE)

\* wrapped with the wrap-around test left out
wrapped_never(bs, g) == FALSE

\* line 89, first operand: size_t wrap-around
wrapped(bs, g) == NumLe(bs, g)

\* lines 88-91: the new size, the wrap-around test, realloc, rv = buf.
ftm_grow ==
    /\ pc = "ftm_grow"
    /\ LET bs == next_buf_size(got) IN
       /\ buf_size' = bs
       /\ \/ /\ wrapped(bs, got)             \* break
             /\ pc' = "ftm_check"
             /\ UNCHANGED <<buf, ftm_rv, heap, faults>>
          \/ /\ ~wrapped(bs, got)            \* realloc fails: buf = 0, break
             /\ buf' = NULL
             /\ faults' = faults \cup {IF Allocatable(bs) THEN "realloc" ELSE "too_big"}
             /\ pc' = "ftm_check"
             /\ UNCHANGED <<ftm_rv, heap>>
          \/ /\ ~wrapped(bs, got) /\ Allocatable(bs) /\ buf = NULL   \* a new block
             /\ LET a == FreshAddr IN
                /\ heap' = [heap EXCEPT ![a] = [live |-> TRUE, cap |-> bs, bytes |-> <<>>]]
                /\ buf' = a /\ ftm_rv' = a
             /\ pc' = "ftm_fread"
             /\ UNCHANGED faults
          \/ /\ ~wrapped(bs, got) /\ Allocatable(bs) /\ buf # NULL   \* grown in place
             /\ heap' = [heap EXCEPT ![buf].cap = bs]
             /\ ftm_rv' = buf
             /\ pc' = "ftm_fread"
             /\ UNCHANGED <<buf, faults>>
          \/ /\ ~wrapped(bs, got) /\ Allocatable(bs) /\ buf # NULL   \* moved
             /\ LET a == FreshAddr IN
                /\ heap' = [heap EXCEPT ![a] = [heap[buf] EXCEPT !.cap = bs],
                                        ![buf] = NoBlock]
                /\ buf' = a /\ ftm_rv' = a
             /\ pc' = "ftm_fread"
             /\ UNCHANGED faults
    /\ UNCHANGED <<lp64, input, outfile, stdout_, pending, diag, badfree, fopened, fclosed,
                   run, orig, prog, argv, exitcode, mainVars, fname, got, f, f_eof,
                   f_err, hdrVars>>

\* line 92: got += fread(buf + got, 1, buf_size - got, f), and line 93, the
\* loop test.  fread returns the whole request, or less at the end of the
\* input (end-of-file is flagged); when the stream fails within the request
\* (the error is flagged) it returns the bytes delivered before the failure,
\* fewer than the request.
stream_fails_within(g, bs) ==
    input.fails /\ NumLe(g, input.err) /\ NumLt(input.err, bs)

ftm_fread ==
    /\ pc = "ftm_fread"
    /\ LET request == SzSub(buf_size, got)
           avail   == NumSub(input.len, got)
           failed  == stream_fails_within(got, buf_size)
           n       == IF failed THEN NumSub(input.err, got) ELSE NumMin(request, avail)
       IN  /\ got' = SzAdd(got, n)
           /\ f_eof' = (f_eof \/ (~failed /\ NumLt(avail, request)))
           /\ f_err' = (f_err \/ failed)
           /\ faults' = IF failed THEN faults \cup {"fread"} ELSE faults
           /\ heap' = [heap EXCEPT ![buf].bytes = HeadTake(input, SzAdd(got, n))]
           /\ pc' = IF SzAdd(got, n) = buf_size THEN "ftm_grow" ELSE "ftm_check"
    /\ UNCHANGED <<lp64, input, outfile, stdout_, pending, diag, badfree,
                   fopened, fclosed, run, orig, prog, argv, exitcode, mainVars,
                   fname, buf, ftm_rv, buf_size, f, hdrVars>>

\* ftm_failed without the test of feof
ftm_failed_ignoring_eof == buf = NULL \/ f_err

\* line 95: the test that decides failure
ftm_failed == buf = NULL \/ ~f_eof \/ f_err

\* lines 95-99: on failure free what was allocated and return 0.
ftm_check ==
    /\ pc = "ftm_check"
    /\ IF ftm_failed
       THEN /\ ftm_rv' = NULL
            /\ IF ftm_rv # NULL
               THEN /\ heap' = Freed(heap, ftm_rv)
                    /\ badfree' = (badfree \/ ~heap[ftm_rv].live)
               ELSE UNCHANGED <<heap, badfree>>
       ELSE UNCHANGED <<ftm_rv, heap, badfree>>
    /\ pc' = "ftm_close"
    /\ UNCHANGED <<lp64, input, outfile, stdout_, pending, diag, faults, fopened,
                   fclosed, run, orig, prog, argv, exitcode, mainVars, fname, buf,
                   buf_size, got, f, f_eof, f_err, hdrVars>>

\* line 101: the handle is closed iff it was opened by name
ftm_must_close == f # NullFile /\ fname # NullStr

\* lines 101-105: fclose, *out_size = got, return rv.
ftm_close ==
    /\ pc = "ftm_close"
    /\ fclosed' = IF ftm_must_close THEN [fclosed EXCEPT ![f] = @ + 1] ELSE fclosed
    /\ ftm_return(ftm_rv, ftm_rv # NULL, got)
    /\ UNCHANGED <<lp64, input, outfile, stdout_, pending, diag, faults, heap, badfree, fopened, run, orig, prog, argv, exitcode, osize, iname,
                   oname, odata, ofile, rv, dsize, csize, called, ftmVars, hdrVars>>

file_to_mem == ftm_open \/ ftm_grow \/ ftm_fread \/ ftm_check \/ ftm_close

(***************************************************************************)
(* lz4.c, which the programs link against and which is not part of the     *)
(* two source files: modelled from its contract.                           *)
(*   A block holding only literals is a token byte, 16 * (number of        *)
(* literals) for fewer than 15 of them, followed by the literals;          *)
(* LZ4_compress emits exactly that for an input shorter than 13 bytes, and *)
(* LZ4_decompress_safe accepts nothing else from a source shorter than 9   *)
(* bytes.                                                                  *)
(***************************************************************************)
\* The statuses with which the compress primitive reports failure.
CompressFailure == {0, -1}

LZ4_compressBound(n) == n + (n \div 255) + 16

\* The block LZ4_compress writes for src.
LZ4_compress(src) == <<16 * Len(src)>> \o src

\* <<status, bytes written>> of LZ4_decompress_safe(src, dst, Len(src), maxOut):
\* the decompressed length, or a negative status.
LZ4_decompress_safe(src, maxOut) ==
    IF maxOut = 0
    THEN IF src = <<0>> THEN <<0, <<>>>> ELSE <<-1, <<>>>>
    ELSE IF src # <<>> /\ maxOut > 0 /\ src[1] \div 16 < 15
            /\ src[1] \div 16 = Len(src) - 1 /\ Len(src) - 1 <= maxOut
         THEN <<Len(src) - 1, Tail(src)>>
         ELSE <<-2, <<>>>>

(***************************************************************************)
(* main: dejsonlz4.c lines 112-165 and jsonlz4.c lines 115-166.            *)
(***************************************************************************)
Running == -1

argc == Len(argv) + 1

Say(stream, text) == diag' = Append(diag, <<stream, text>>)

\* ERR_CLEANUP (dejsonlz4.c line 110): print the error, goto cleanup.
ERR_CLEANUP(text) == Say("stderr", text) /\ pc' = "cleanup"

\* exit_usage (dejsonlz4.c lines 50-61, jsonlz4.c lines 52-64): the usage text
\* on stdout for code 0 and on stderr otherwise, then exit(code).
exit_usage(code) ==
    /\ Say(IF code # 0 THEN "stderr" ELSE "stdout", "Usage")
    /\ exitcode' = code
    /\ pc' = "exited"

\* dec_usage without the test argc < 2
dec_usage_allowing_no_operand == argc > 3 \/ (argc > 1 /\ argv[1] = "-h")

\* dejsonlz4.c line 121: the condition under which the decoder shows its usage
dec_usage == argc > 3 \/ argc < 2 \/ (argc > 1 /\ argv[1] = "-h")

\* dejsonlz4.c lines 123-124
dec_iname == IF argc > 1 /\ argv[1] # "-" THEN argv[1] ELSE NullStr

\* dejsonlz4.c lines 125-126
dec_oname == IF argc > 2 /\ argv[2] # "-" THEN argv[2] ELSE NullStr

\* dejsonlz4.c lines 120-126: process arguments.
dec_args ==
    /\ pc = "args" /\ prog = "dejsonlz4"
    /\ IF dec_usage
       THEN /\ exit_usage(IF argc = 2 THEN 0 ELSE 1)
            /\ UNCHANGED <<iname, oname>>
       ELSE /\ iname' = dec_iname
            /\ oname' = dec_oname
            /\ pc' = "read"
            /\ UNCHANGED <<diag, exitcode>>
    /\ UNCHANGED <<lp64, input, outfile, stdout_, pending, faults, heap, badfree, fopened, fclosed, run, orig, prog, argv, isize, osize,
                   idata, odata, ofile, rv, dsize, csize, called, ftmVars, hdrVars>>

\* jsonlz4.c lines 123-129: process arguments.
enc_args ==
    /\ pc = "args" /\ prog = "jsonlz4"
    /\ IF argc # 3
       THEN /\ exit_usage(IF argc = 2 /\ argv[1] = "-h" THEN 0 ELSE 1)
            /\ UNCHANGED <<iname, oname>>
       ELSE /\ iname' = IF argv[1] # "-" THEN argv[1] ELSE NullStr
            /\ oname' = IF argv[2] # "-" THEN argv[2] ELSE NullStr
            /\ pc' = "read"
            /\ UNCHANGED <<diag, exitcode>>
    /\ UNCHANGED <<lp64, input, outfile, stdout_, pending, faults, heap, badfree, fopened, fclosed, run, orig, prog, argv, isize, osize,
                   idata, odata, ofile, rv, dsize, csize, called, ftmVars, hdrVars>>

\* dejsonlz4.c line 129, jsonlz4.c line 132: the call file_to_mem(iname, &isize).
main_read ==
    /\ pc = "read"
    /\ fname' = iname
    /\ pc' = "ftm_open"
    /\ UNCHANGED <<lp64, envVars, run, orig, prog, argv, exitcode, mainVars, buf,
                   ftm_rv, buf_size, got, f, f_eof, f_err, hdrVars>>

\* dejsonlz4.c lines 129-130, jsonlz4.c lines 132-133: the test of the result.
chk_read ==
    /\ pc = "chk_read"
    /\ IF idata = NULL
       THEN ERR_CLEANUP("cannot read file")
       ELSE /\ pc' = IF prog = "dejsonlz4" THEN "chk_format" ELSE "enc_malloc"
            /\ UNCHANGED diag
    /\ UNCHANGED <<lp64, input, outfile, stdout_, pending, faults, heap, badfree, fopened, fclosed, run, orig, prog, argv, exitcode,
                   mainVars, ftmVars, hdrVars>>

\* The bytes of the block at p that have been written.
Bytes(p) == heap[p].bytes

\* The first n bytes of a sequence (all of it if it is shorter).
Take(b, n) == SubSeq(b, 1, IF n < Len(b) THEN n ELSE Len(b))

\* dejsonlz4.c line 131: the input is not a mozLz4 container
bad_format ==
    \/ NumLt(isize, IntToSizeT(magic_size + decomp_size))
    \/ Take(Bytes(idata), magic_size) # mozlz4_magic

\* dejsonlz4.c lines 131-132: validate magic header and minimum size.
chk_format ==
    /\ pc = "chk_format"
    /\ IF bad_format
       THEN ERR_CLEANUP("unsupported file format")
       ELSE pc' = "dec_size" /\ UNCHANGED diag
    /\ UNCHANGED <<lp64, input, outfile, stdout_, pending, faults, heap, badfree, fopened, fclosed, run, orig, prog, argv, exitcode,
                   mainVars, ftmVars, hdrVars>>

\* dejsonlz4.c lines 135-136: read output size.
dec_size ==
    /\ pc = "dec_size"
    /\ osize' = decodeStep(SubSeq(Bytes(idata), magic_size + 1, HeaderLen), 0, osize)
    /\ pc' = "dec_malloc"
    /\ UNCHANGED <<lp64, envVars, run, orig, prog, argv, exitcode, isize, iname,
                   oname, idata, odata, ofile, rv, dsize, csize, called, ftmVars,
                   hdrVars>>

\* malloc(size) in main: odata becomes a new block, or the error is reported.
main_malloc(size, next) ==
    \/ /\ Allocatable(size)
       /\ LET a == FreshAddr IN
          /\ heap' = [heap EXCEPT ![a] = [live |-> TRUE, cap |-> size, bytes |-> <<>>]]
          /\ odata' = a
       /\ pc' = next
       /\ UNCHANGED <<diag, faults>>
    \/ /\ odata' = NULL
       /\ faults' = faults \cup {IF Allocatable(size) THEN "malloc" ELSE "too_big"}
       /\ ERR_CLEANUP("cannot allocate memory for output")
       /\ UNCHANGED heap

\* dejsonlz4.c lines 137-138: allocate the output buffer.
dec_malloc ==
    /\ pc = "dec_malloc"
    /\ main_malloc(osize, "dec_decompress")
    /\ UNCHANGED <<lp64, input, outfile, stdout_, pending, badfree, fopened, fclosed,
                   run, orig, prog, argv, exitcode, isize, osize, iname, oname,
                   idata, ofile, rv, dsize, csize, called, ftmVars, hdrVars>>

\* decompress_failed testing for zero, as the encoder tests csize
decompress_failed_zero_only(d) == d = 0

\* dejsonlz4.c line 141: the test that takes dsize for a failure
decompress_failed(d) == d < 0

\* size_mismatch testing only for more bytes than declared
size_mismatch_larger_only(d, size) == NumLt(size, IntToSizeT(d))

\* dejsonlz4.c line 143: the test that prints the warning (int against size_t)
size_mismatch(d, size) == IntToSizeT(d) # size

\* dejsonlz4.c lines 141-144: decompress.
dec_decompress ==
    /\ pc = "dec_decompress"
    /\ LET r == LZ4_decompress_safe(SubSeq(Bytes(idata), HeaderLen + 1, Len(Bytes(idata))),
                                    SizeTToInt(osize))
       IN  /\ dsize' = r[1]
           /\ heap' = [heap EXCEPT ![odata].bytes = r[2]]
           /\ called' = called \cup {"LZ4_decompress_safe"}
           /\ IF decompress_failed(r[1])
              THEN ERR_CLEANUP("decompression failed")
              ELSE /\ pc' = "open"
                   /\ IF size_mismatch(r[1], osize)
                      THEN Say("stderr", "Warning: decompressed file smaller than expected")
                      ELSE UNCHANGED diag
    /\ UNCHANGED <<lp64, input, outfile, stdout_, pending, faults, badfree,
                   fopened, fclosed, run, orig, prog, argv, exitcode, isize, osize,
                   iname, oname, idata, odata, ofile, rv, csize, ftmVars, hdrVars>>

\* jsonlz4.c lines 134-135: allocate buffer for output file.
enc_malloc ==
    /\ pc = "enc_malloc"
    /\ main_malloc(SzAdd(IntToSizeT(magic_size + decomp_size),
                         IntToSizeT(LZ4_compressBound(SizeTToInt(isize)))),
                   "enc_header")
    /\ UNCHANGED <<lp64, input, outfile, stdout_, pending, badfree, fopened, fclosed,
                   run, orig, prog, argv, exitcode, isize, osize, iname, oname,
                   idata, ofile, rv, dsize, csize, called, ftmVars, hdrVars>>

\* jsonlz4.c lines 138-140: write header and size of decompressed data.
enc_header ==
    /\ pc = "enc_header"
    /\ heap' = [heap EXCEPT ![odata].bytes = buildHeader(isize)]
    /\ pc' = "enc_compress"
    /\ UNCHANGED <<lp64, input, outfile, stdout_, pending, diag, faults, badfree, fopened, fclosed, run, orig, prog, argv, exitcode,
                   mainVars, ftmVars, hdrVars>>

\* jsonlz4.c line 143: the test that takes csize for a failure
compress_failed(c) == c = 0

\* enc_osize with the 4 size bytes forgotten: osize = csize + magic_size
enc_osize_without_size_field(c) == SzAdd(IntToSizeT(c), IntToSizeT(magic_size))

\* jsonlz4.c line 145: osize = csize + magic_size + decomp_size
enc_osize(c) == SzAdd(SzAdd(IntToSizeT(c), IntToSizeT(magic_size)), IntToSizeT(decomp_size))

\* jsonlz4.c lines 143-145: compress.
enc_compress ==
    /\ pc = "enc_compress"
    /\ \E ok \in BOOLEAN :
          \E c \in IF ok THEN {Len(LZ4_compress(Bytes(idata)))} ELSE CompressFailure :
             /\ csize' = c
             /\ called' = called \cup {"LZ4_compress"}
             /\ heap' = IF ok
                        THEN [heap EXCEPT ![odata].bytes = @ \o LZ4_compress(Bytes(idata))]
                        ELSE heap
             /\ faults' = IF ok THEN faults ELSE faults \cup {"compress"}
             /\ IF compress_failed(c)
                THEN ERR_CLEANUP("compression failed") /\ UNCHANGED osize
                ELSE /\ osize' = enc_osize(c)
                     /\ pc' = "open"
                     /\ UNCHANGED diag
    /\ UNCHANGED <<lp64, input, outfile, stdout_, pending, badfree, fopened,
                   fclosed, run, orig, prog, argv, exitcode, isize, iname, oname,
                   idata, odata, ofile, rv, dsize, ftmVars, hdrVars>>

\* dejsonlz4.c lines 147-150, jsonlz4.c lines 148-151: open the output;
\* fopen(oname, "wb") creates or truncates the file.
open_out ==
    /\ pc = "open"
    /\ \/ /\ oname # NullStr
          /\ ofile' = "OUT"
          /\ outfile' = [exists |-> TRUE, bytes |-> <<>>]
          /\ fopened' = fopened \cup {"OUT"}
          /\ pc' = "write"
          /\ UNCHANGED <<diag, faults>>
       \/ /\ oname # NullStr
          /\ ofile' = NullFile
          /\ faults' = faults \cup {"fopen_out"}
          /\ ERR_CLEANUP("cannot open for writing")
          /\ UNCHANGED <<outfile, fopened>>
       \/ /\ oname = NullStr
          /\ ofile' = "stdout"
          /\ ensure_binary("stdout") = 0
          /\ pc' = "write"
          /\ UNCHANGED <<diag, faults, outfile, fopened>>
    /\ UNCHANGED <<lp64, input, stdout_, pending, heap, badfree, fclosed, run,
                   orig, prog, argv, exitcode, isize, osize, iname, oname, idata,
                   odata, rv, dsize, csize, called, ftmVars, hdrVars>>

\* fwrite(odata, 1, count, ofile) followed by the test of its result: all
\* count bytes are taken and rv becomes 0, or any smaller number of them is
\* and the error is reported.  ofile is a buffered stream: the bytes fwrite
\* takes stay in its buffer until the stream is flushed.
main_write(count) ==
    \E n \in (IF count > 0 THEN 0..count ELSE {count}) :
       /\ pending' = pending \o Take(Bytes(odata), n)
       /\ UNCHANGED <<outfile, stdout_>>
       /\ IF n # count
          THEN /\ faults' = faults \cup {"fwrite"}
               /\ ERR_CLEANUP("cannot write")
               /\ UNCHANGED rv
          ELSE /\ rv' = 0
               /\ pc' = "cleanup"
               /\ UNCHANGED <<diag, faults>>

\* dejsonlz4.c lines 151-154: write output, dsize bytes.
dec_write ==
    /\ pc = "write" /\ prog = "dejsonlz4"
    /\ main_write(dsize)
    /\ UNCHANGED <<lp64, input, heap, badfree, fopened, fclosed, run,
                   orig, prog, argv, exitcode, isize, osize, iname, oname, idata,
                   odata, ofile, dsize, csize, called, ftmVars, hdrVars>>

\* jsonlz4.c lines 152-155: write output, osize bytes.
enc_write ==
    /\ pc = "write" /\ prog = "jsonlz4"
    /\ main_write(SizeTToInt(osize))
    /\ UNCHANGED <<lp64, input, heap, badfree, fopened, fclosed, run,
                   orig, prog, argv, exitcode, isize, osize, iname, oname, idata,
                   odata, ofile, dsize, csize, called, ftmVars, hdrVars>>

\* must_close_out without the test of oname
must_close_out_any == ofile # NullFile

\* line 157: the output handle is closed iff it was opened by name
must_close_out == ofile # NullFile /\ oname # NullStr

\* free(p) for each p of ps that is not NULL: <<heap, badfree>> after.
RECURSIVE FreeAll(_, _, _)
FreeAll(ps, h, bad) ==
    IF ps = <<>> THEN <<h, bad>>
    ELSE IF Head(ps) = NULL THEN FreeAll(Tail(ps), h, bad)
    ELSE FreeAll(Tail(ps), Freed(h, Head(ps)), bad \/ ~h[Head(ps)].live)

\* dejsonlz4.c lines 156-164, jsonlz4.c lines 157-165: cleanup and return rv.
\* The buffer of ofile is flushed by fclose (line 158), or for stdout when the
\* process exits on the return from main; the device takes all of it or, on
\* an error, a part, and the program looks at neither result.
cleanup ==
    /\ pc = "cleanup"
    /\ fclosed' = IF must_close_out THEN [fclosed EXCEPT ![ofile] = @ + 1] ELSE fclosed
    /\ \E k \in 0..Len(pending) :
          /\ IF ofile = "stdout"
             THEN stdout_' = stdout_ \o Take(pending, k) /\ UNCHANGED outfile
             ELSE /\ outfile' = IF k = 0 THEN outfile
                                ELSE [outfile EXCEPT !.bytes = @ \o Take(pending, k)]
                  /\ UNCHANGED stdout_
          /\ faults' = IF k < Len(pending) THEN faults \cup {"flush"} ELSE faults
    /\ pending' = <<>>
    /\ LET r == FreeAll(<<odata, idata>>, heap, badfree) IN
       /\ heap' = r[1] /\ badfree' = r[2]
    /\ exitcode' = rv
    /\ pc' = "exited"
    /\ UNCHANGED <<lp64, input, diag, fopened, run,
                   orig, prog, argv, mainVars, ftmVars, hdrVars>>

(***************************************************************************)
(* The inputs the programs are started on.                                 *)
(***************************************************************************)
\* All sequences over S of length at most n.
RECURSIVE SeqsUpTo(_, _)
SeqsUpTo(S, n) ==
    IF n = 0 THEN {<<>>}
    ELSE LET shorter == SeqsUpTo(S, n - 1)
         IN  shorter \cup {Append(q, x) : q \in {t \in shorter : Len(t) = n - 1}, x \in S}

\* The operand lists argv[1..argc-1].
ArgLists ==
    {<<>>, <<"-h">>, <<"-">>, <<"IN">>, <<"-", "-">>, <<"-", "OUT">>, <<"IN", "-">>,
     <<"IN", "OUT">>, <<"-h", "OUT">>, <<"IN", "OUT", "X">>}

\* Raw inputs of the encoder.
DataBytes == {0, 97, 255}
EncInputs == SeqsUpTo(DataBytes, MaxLen)

\* Decoder inputs with a good header: the magic, a size field and a payload,
\* well-formed or not.
PayloadBytes == {0, 16, 32, 97}
Payloads == SeqsUpTo(PayloadBytes, MaxPayload)
SizeFields ==
    {encodeSize(NumOf(n)) : n \in 0..MaxPayload}
        \cup {<<0, 1, 0, 0>>, <<0, 0, 0, 128>>, <<255, 255, 255, 255>>}
GoodHeaderInputs == {mozlz4_magic \o sz \o p : sz \in SizeFields, p \in Payloads}

\* Inputs shorter than a header: every proper prefix of a well-formed file.
WellFormed == mozlz4_magic \o <<1, 0, 0, 0>> \o <<16, 97>>
ShortInputs == {SubSeq(WellFormed, 1, n) : n \in 0..(HeaderLen - 1)}

\* A well-formed file with one byte of the magic changed.
BadMagicInputs ==
    {[WellFormed EXCEPT ![i] = (@ + 1) % 256] : i \in 1..magic_size}

\* Long inputs, all zero bytes, around the sizes at which file_to_mem grows
\* its buffer and at which a 32-bit size_t wraps around.
LongLens ==
    {NumOf(n) : n \in {INITIAL_ALLOC_SIZE - 1024, INITIAL_ALLOC_SIZE - 1,
                       INITIAL_ALLOC_SIZE, INITIAL_ALLOC_SIZE + 1,
                       2 * INITIAL_ALLOC_SIZE - 1, 2 * INITIAL_ALLOC_SIZE,
                       2 * INITIAL_ALLOC_SIZE + 1, 96 * INITIAL_ALLOC_SIZE,
                       2^30, 2^30 + 1}}
        \cup {<<Base - 1, Base \div 2 - 1, 0, 0>>, <<0, Base \div 2, 0, 0>>,
              <<1, Base \div 2, 0, 0>>, <<0, 0, 1, 0>>}

LongSources == {Source(<<>>, n) : n \in LongLens}

DecSources ==
    {Source(b, NumOf(Len(b))) : b \in GoodHeaderInputs \cup ShortInputs \cup BadMagicInputs}
        \cup LongSources

EncSources == {Source(b, NumOf(Len(b))) : b \in EncInputs}

\* The read errors given to an input of len bytes, each as the number of
\* bytes the stream delivers before it fails.  A short input fails at every
\* position.  A long input fails at every position of its first bytes and,
\* within ErrNear bytes, at its end and at the start and the middle of every
\* read of the loop of file_to_mem.
DenseLen == HeaderLen + MaxPayload + MaxLen

RECURSIVE GrowthMarks(_, _)
GrowthMarks(half, len) ==
    LET b == NumAdd(half, half)
    IN  IF NumLt(len, b) THEN {} ELSE {b, NumAdd(b, half)} \cup GrowthMarks(b, len)

Near(mark) ==
    {NumAdd(mark, NumOf(d)) : d \in 0..ErrNear}
        \cup {NumSub(mark, NumOf(d)) : d \in {x \in 0..ErrNear : NumLe(NumOf(x), mark)}}

ReadErrorAfter(len) ==
    IF Small(len) /\ IntOf(len) <= DenseLen
    THEN {NumOf(k) : k \in 0..IntOf(len)}
    ELSE LET half  == NumOf(INITIAL_ALLOC_SIZE \div 2)
             marks == {half, len} \cup GrowthMarks(half, len)
         IN  {e \in {NumOf(k) : k \in 0..(DenseLen + 1)} \cup UNION {Near(m) : m \in marks} :
                 NumLe(e, len)}

\* The sources with the read errors they are given.
FailingSources(S) ==
    UNION {{Failing(src, e) : e \in ReadErrorAfter(src.len)} : src \in S}

\* The inputs that fail while the decoder reads them: a well-formed file and
\* each of its proper prefixes, and the long inputs.
DecFailingSources ==
    FailingSources({Source(b, NumOf(Len(b))) : b \in ShortInputs \cup {WellFormed}}
                       \cup LongSources)

\* The inputs that fail while the encoder reads them: all its inputs.
EncFailingSources == FailingSources(EncSources)

\* The operand lists a source that fails is read under: from standard input
\* and from IN, with standard output and with OUT to write to (a long one
\* with no file OUT there before the run).
FailingArgLists == {<<"-">>, <<"IN">>, <<"IN", "OUT">>}

NoFile == [exists |-> FALSE, bytes |-> <<>>]

\* What an output file that exists before the run holds.
OldFile == [exists |-> TRUE, bytes |-> <<111, 108, 100>>]

(***************************************************************************)
(* A process at the start of main: the initialisers of lines 114-118, an   *)
(* empty heap, nothing printed or written.                                 *)
(***************************************************************************)
HdrIdle == hpc = "idle" /\ hn = Zero /\ hdr = <<>> /\ hsize = Zero

Started(p, av, src, of) ==
    /\ input = src /\ outfile = of /\ stdout_ = <<>> /\ pending = <<>> /\ diag = <<>> /\ faults = {}
    /\ heap = [a \in Addr |-> NoBlock] /\ badfree = FALSE
    /\ fopened = {} /\ fclosed = [h \in Handles |-> 0]
    /\ prog = p /\ argv = av /\ exitcode = Running
    /\ isize = Zero /\ osize = Zero /\ iname = NullStr /\ oname = NullStr
    /\ idata = NULL /\ odata = NULL /\ ofile = NullFile /\ rv = 1
    /\ dsize = 0 /\ csize = 0 /\ called = {}
    /\ fname = NullStr /\ buf = NULL /\ ftm_rv = NULL /\ buf_size = Zero
    /\ got = Zero /\ f = NullFile /\ f_eof = FALSE /\ f_err = FALSE

Init ==
    /\ lp64 \in BOOLEAN
    /\ run = 1
    /\ \E p \in {"dejsonlz4", "jsonlz4"} :
          \E av \in ArgLists :
             \E src \in IF p = "dejsonlz4" THEN DecSources \cup DecFailingSources
                                            ELSE EncSources \cup EncFailingSources :
                \E of \in {NoFile, OldFile} :
                   /\ src.fails => av \in FailingArgLists
                   /\ (src.fails /\ NumLt(NumOf(DenseLen), src.len)) => of = NoFile
                   /\ Started(p, av, src, of) /\ orig = src.head
    /\ pc = "args"
    /\ HdrIdle

\* The round trip: once the encoder's main has returned 0, the decoder is started
\* on the bytes the encoder wrote (to OUT, or to standard output).
RoundTrip ==
    /\ run = 1 /\ prog = "jsonlz4" /\ pc = "exited" /\ rv = 0 /\ exitcode = 0
    /\ "flush" \notin faults
    /\ run' = 2
    /\ LET written == IF oname # NullStr THEN outfile.bytes ELSE stdout_ IN
       \E av \in {<<"-">>, <<"IN", "OUT">>} :
          /\ input' = Source(written, NumOf(Len(written)))
          /\ argv' = av
    /\ outfile' = NoFile /\ stdout_' = <<>> /\ pending' = <<>> /\ diag' = <<>>
    /\ heap' = [a \in Addr |-> NoBlock] /\ badfree' = FALSE
    /\ fopened' = {} /\ fclosed' = [h \in Handles |-> 0]
    /\ prog' = "dejsonlz4" /\ pc' = "args" /\ exitcode' = Running
    /\ isize' = Zero /\ osize' = Zero /\ iname' = NullStr /\ oname' = NullStr
    /\ idata' = NULL /\ odata' = NULL /\ ofile' = NullFile /\ rv' = 1
    /\ dsize' = 0 /\ csize' = 0 /\ called' = {}
    /\ fname' = NullStr /\ buf' = NULL /\ ftm_rv' = NULL /\ buf_size' = Zero
    /\ got' = Zero /\ f' = NullFile /\ f_eof' = FALSE /\ f_err' = FALSE
    /\ UNCHANGED <<lp64, faults, orig, hdrVars>>

main ==
    \/ dec_args \/ enc_args \/ main_read \/ file_to_mem \/ chk_read
    \/ chk_format \/ dec_size \/ dec_malloc \/ dec_decompress
    \/ enc_malloc \/ enc_header \/ enc_compress
    \/ open_out \/ dec_write \/ enc_write \/ cleanup

Next == main \/ RoundTrip

Spec == Init /\ [][Next]_vars

(***************************************************************************)
(* The header functions on their own, over the whole range of the size     *)
(* field: the encoder's header for a length hn, then the decoder's loop on *)
(* the 4 size bytes of that header.                                        *)
(***************************************************************************)
Limbs == {0, 1, 255, 256, Base \div 2 - 1, Base \div 2, Base - 1}

HdrSizes == {<<lo, hi, 0, 0>> : lo \in Limbs, hi \in Limbs}

InitHdr ==
    /\ lp64 \in BOOLEAN
    /\ run = 1 /\ orig = <<>>
    /\ Started("jsonlz4", <<>>, Source(<<>>, Zero), NoFile) /\ pc = "idle"
    /\ hpc = "start" /\ hn \in HdrSizes /\ hdr = <<>> /\ hsize = Zero

hdr_build ==
    /\ hpc = "start"
    /\ hdr' = buildHeader(hn)
    /\ hpc' = "built"
    /\ UNCHANGED <<lp64, envVars, procVars, mainVars, ftmVars, hn, hsize>>

hdr_parse ==
    /\ hpc = "built"
    /\ hsize' = decodeSize(SubSeq(hdr, magic_size + 1, HeaderLen))
    /\ hpc' = "decoded"
    /\ UNCHANGED <<lp64, envVars, procVars, mainVars, ftmVars, hn, hdr>>

NextHdr == hdr_build \/ hdr_parse

SpecHdr == InitHdr /\ [][NextHdr]_vars

(***************************************************************************)
(* Vocabulary of the properties.                                           *)
(***************************************************************************)
Decoder == prog = "dejsonlz4"
Encoder == prog = "jsonlz4"
Exited  == pc = "exited"

Printed(stream, text) == \E i \in 1..Len(diag) : diag[i] = <<stream, text>>

\* The bytes the run has written to its output destination.
Output ==
    IF oname = NullStr THEN stdout_
    ELSE IF "OUT" \in fopened THEN outfile.bytes ELSE <<>>

\* Failures that come from the environment, not from what the program asked:
\* a request the build cannot serve at all ("too_big") is not one.
EnvFaults == {"fopen_in", "realloc", "fread", "malloc", "compress", "fopen_out", "fwrite",
              "flush"}
NoEnvFault == faults \cap EnvFaults = {}

\* The input is a container with a good header, judged on the input itself.
InputHasHeader ==
    /\ NumLe(NumOf(12), input.len)
    /\ Len(input.head) >= 8
    /\ \A i \in 1..8 : input.head[i] = mozlz4_magic[i]

\* The size the header of the input declares, as a Num.
Declared ==
    <<input.head[9] + 256 * input.head[10], input.head[11] + 256 * input.head[12], 0, 0>>

(***************************************************************************)
(* C2: for every n in [0, 2^32) the encoder's header is 12 bytes, the      *)
(* magic followed by n in little-endian, and the decoder's size loop on    *)
(* those 4 bytes yields n again.                                           *)
(***************************************************************************)
C2_HeaderSizeRoundTrip ==
    hpc = "decoded" =>
        /\ Len(hdr) = 12
        /\ SubSeq(hdr, 1, 8) = <<109, 111, 122, 76, 122, 52, 48, 0>>
        /\ hdr[9] + 256 * hdr[10] = hn[1]
        /\ hdr[11] + 256 * hdr[12] = hn[2]
        /\ hsize = hn

(***************************************************************************)
(* C3: the decoder rejects with a format error (message, exit code 1,      *)
(* decompress never called) every input shorter than 12 bytes and every    *)
(* input whose first 8 bytes are not the magic; every input of at least 12 *)
(* bytes that starts with the magic passes the header check and reaches    *)
(* the decompress step.  Stated of the runs that read their input, and,    *)
(* for the second half, met no failure of the environment.                 *)
(***************************************************************************)
C3_HeaderValidation ==
    (Decoder /\ Exited /\ idata # NULL) =>
        IF InputHasHeader
        THEN /\ ~Printed("stderr", "unsupported file format")
             /\ NoEnvFault => "LZ4_decompress_safe" \in called
        ELSE /\ Printed("stderr", "unsupported file format")
             /\ exitcode = 1
             /\ "LZ4_decompress_safe" \notin called

(***************************************************************************)
(* C4, as the specification states it: an omitted IN operand, like "-",    *)
(* makes the decoder read standard input (so the decoder run without       *)
(* operands reads standard input); an omitted OUT operand, like "-", makes *)
(* it write standard output; any other operand is a file path.  Stated of  *)
(* operand lists of at most two that do not start with the flag -h, once   *)
(* the arguments have been processed.                                      *)
(***************************************************************************)
OperandsInScope == Decoder /\ pc # "args" /\ Len(argv) <= 2 /\ (argv = <<>> \/ argv[1] # "-h")

InOmittedOrDash == Len(argv) < 1 \/ argv[1] = "-"
OutOmittedOrDash == Len(argv) < 2 \/ argv[2] = "-"

OperandMapping ==
    /\ iname = IF InOmittedOrDash THEN NullStr ELSE argv[1]
    /\ oname = IF OutOmittedOrDash THEN NullStr ELSE argv[2]
    /\ f # NullFile => (f = "stdin" <=> InOmittedOrDash)
    /\ ofile # NullFile => (ofile = "stdout" <=> OutOmittedOrDash)

C4_OperandMappingAsStated ==
    OperandsInScope => (~Printed("stderr", "Usage") /\ OperandMapping)

(***************************************************************************)
(* C4, amended: IN given as "-" makes the decoder read standard input; OUT *)
(* omitted or "-" makes it write standard output; any other operand is a   *)
(* file path; run without operands the decoder prints its usage on the     *)
(* diagnostic stream and exits with 1, having read and opened nothing.     *)
(***************************************************************************)
C4_OperandMapping ==
    OperandsInScope =>
        IF argv = <<>>
        THEN /\ Exited /\ exitcode = 1 /\ diag = <<<<"stderr", "Usage">>>>
             /\ f = NullFile /\ ofile = NullFile /\ fopened = {}
             /\ idata = NULL /\ Output = <<>>
        ELSE ~Printed("stderr", "Usage") /\ OperandMapping

C4_Witness ==
    /\ Decoder /\ run = 1 /\ Exited /\ exitcode = 0
    /\ argv = <<"-">> /\ f = "stdin" /\ ofile = "stdout" /\ stdout_ # <<>>

(***************************************************************************)
(* C8: in the encoder, whenever the compress primitive reports failure     *)
(* with a non-positive status, zero or negative, the run fails with a      *)
(* codec error: it exits with 1 and writes no byte to its output           *)
(* destination (which it does not even open).  Stated of the runs in which *)
(* nothing else fails.                                                     *)
(***************************************************************************)
C8_CompressFailureIsFatal ==
    (Encoder /\ Exited /\ "LZ4_compress" \in called /\ csize <= 0
        /\ faults \subseteq {"compress"}) =>
        /\ exitcode = 1
        /\ Printed("stderr", "compression failed")
        /\ stdout_ = <<>>
        /\ "OUT" \notin fopened

(***************************************************************************)
(* C1: round trip.  For every byte sequence B, the empty one included, the *)
(* decoder run on what the encoder wrote for B exits with 0 and writes     *)
(* exactly B.  Stated of the pipelines in which no library call fails.     *)
(***************************************************************************)
C1_RoundTrip ==
    (run = 2 /\ Exited /\ faults = {}) => (exitcode = 0 /\ Output = orig)

C1_Witness ==
    /\ run = 2 /\ Exited /\ faults = {} /\ exitcode = 0
    /\ Len(orig) = MaxLen /\ orig[1] = 255 /\ Output = orig

(***************************************************************************)
(* C5: a size mismatch is not fatal.  Whenever decompress returns a length *)
(* d >= 0 that differs from the size the header declares, the decoder      *)
(* prints the warning on the diagnostic stream, writes the d bytes that    *)
(* were produced, never the declared count, and exits with 0 provided the  *)
(* output can be opened and written: the stream is handed exactly the d     *)
(* bytes, and they are the output when the device takes them all.          *)
(***************************************************************************)
Mismatch ==
    /\ Decoder /\ "LZ4_decompress_safe" \in called /\ dsize >= 0
    /\ NumOf(dsize) # Declared

C5_SizeMismatchNotFatal ==
    Mismatch =>
        /\ Printed("stderr", "Warning: decompressed file smaller than expected")
        /\ Len(Output) + Len(pending) <= dsize
        /\ (pc = "cleanup" /\ ofile # NullFile) =>
              /\ pending = SubSeq(Bytes(odata), 1, Len(pending))
              /\ "fwrite" \notin faults => (rv = 0 /\ pending = Bytes(odata))
        /\ (Exited /\ faults \cap {"fopen_out", "fwrite"} = {}) => exitcode = 0
        /\ (Exited /\ faults \cap {"fopen_out", "fwrite", "flush"} = {}) =>
              Len(Output) = dsize

C5_Witness ==
    /\ Mismatch /\ Exited /\ exitcode = 0
    /\ dsize = 1 /\ Declared = NumOf(2) /\ Len(Output) = 1
    /\ Printed("stderr", "Warning: decompressed file smaller than expected")

(***************************************************************************)
(* C6: file_to_mem returns a buffer only when the source reached a clean   *)
(* end of input with no error flagged, and the size it reports is then the *)
(* number of bytes in the source, whatever the length; throughout the read *)
(* loop the bytes read do not exceed the capacity, and the capacity starts *)
(* at 32 KiB and only ever doubles.                                        *)
(***************************************************************************)
\* In the read loop of lines 87-93, or just out of it.
InReadLoop == pc \in {"ftm_grow", "ftm_fread", "ftm_check"}

\* The capacity of the buffer file_to_mem holds (0 when it holds none).
Capacity == IF ftm_rv # NULL THEN heap[ftm_rv].cap ELSE Zero

C6_ReadState ==
    /\ InReadLoop => NumLe(got, Capacity)
    /\ (pc = "chk_read" /\ idata # NULL) =>
          /\ f_eof /\ ~f_err
          /\ isize = input.len
          /\ heap[idata].live /\ NumLe(isize, heap[idata].cap)
          /\ Bytes(idata) = input.head

C6_GrowthStep ==
    (pc \in {"ftm_grow", "ftm_fread"}) =>
        \/ Capacity' = Capacity
        \/ Capacity = Zero /\ Capacity' = <<32768, 0, 0, 0>>
        \/ Capacity # Zero /\ Capacity' = NumAdd(Capacity, Capacity)

C6_ReadWholeSource == []C6_ReadState /\ [][C6_GrowthStep]_vars

C6_Witness ==
    /\ pc = "chk_read" /\ idata # NULL /\ f_eof
    /\ isize = NumOf(96 * 32768) /\ input.len = isize
    /\ heap[idata].cap = NumOf(128 * 32768)

(***************************************************************************)
(* C7: if doubling the capacity wraps around size_t, or the reallocation   *)
(* fails at any growth step, file_to_mem returns null and never a          *)
(* shortened buffer: the buffer allocated before is freed exactly once, a  *)
(* named input handle is closed, *out_size is left as it was, and the      *)
(* caller reports a read error and exits with 1.                           *)
(***************************************************************************)
\* The loop was left by the break of line 90: the new size did not exceed
\* the bytes read (wrap-around), or realloc returned null.
BrokeOut ==
    /\ pc \in {"ftm_check", "ftm_close", "chk_read", "cleanup", "exited"}
    /\ f # NullFile
    /\ NumLe(buf_size, got) \/ buf = NULL

C7_GrowthFailureIsReadFailure ==
    BrokeOut =>
        /\ ~badfree
        /\ pc # "ftm_check" => (ftm_rv = NULL /\ Live = {})
        /\ pc \in {"chk_read", "cleanup", "exited"} =>
              /\ idata = NULL /\ isize = Zero
              /\ fclosed["IN"] = (IF fname # NullStr THEN 1 ELSE 0)
              /\ fclosed["stdin"] = 0
        /\ pc \in {"cleanup", "exited"} => diag = <<<<"stderr", "cannot read file">>>>
        /\ Exited => (exitcode = 1 /\ Output = <<>> /\ "OUT" \notin fopened)

C7_Witness ==
    /\ Exited /\ exitcode = 1 /\ f = "IN" /\ fclosed["IN"] = 1
    /\ buf # NULL /\ NumLe(buf_size, got) /\ got = <<0, 32768, 0, 0>>
    /\ faults = {} /\ Live = {}

(***************************************************************************)
(* C9: no output on failure.  The decoder opens its output (creating or    *)
(* truncating the named file) only after the whole input has been read,    *)
(* the header validated, the output buffer allocated and decompress has    *)
(* returned a length >= 0; so on a read, format, allocation or codec       *)
(* failure the named output file is never created, truncated or written.   *)
(***************************************************************************)
OutputTouched ==
    \/ "OUT" \in fopened \/ ofile # NullFile
    \/ outfile \notin {NoFile, OldFile} \/ stdout_ # <<>> \/ pending # <<>>

EarlyFailure ==
    \/ Printed("stderr", "cannot read file")
    \/ Printed("stderr", "unsupported file format")
    \/ Printed("stderr", "cannot allocate memory for output")
    \/ Printed("stderr", "decompression failed")

C9_NoOutputOnFailure ==
    Decoder =>
        /\ OutputTouched =>
              /\ pc \in {"write", "cleanup", "exited"}
              /\ idata # NULL /\ f_eof /\ ~f_err /\ isize = input.len
              /\ InputHasHeader
              /\ odata # NULL
              /\ "LZ4_decompress_safe" \in called /\ dsize >= 0
        /\ EarlyFailure => ~OutputTouched

C9_Witness ==
    /\ Decoder /\ Exited /\ exitcode = 1 /\ oname = "OUT"
    /\ Printed("stderr", "decompression failed")
    /\ outfile = OldFile /\ "OUT" \notin fopened

(***************************************************************************)
(* C10: release on every exit path.  In the decoder and in the encoder,    *)
(* whatever the stage that fails, each buffer that was allocated is freed  *)
(* exactly once and each named file that was opened is closed exactly      *)
(* once, the standard streams are never closed, and at most two buffers    *)
(* are live at any time.                                                   *)
(***************************************************************************)
C10_ReleaseOnEveryPath ==
    /\ ~badfree
    /\ Cardinality(Live) <= 2
    /\ \A h \in StdStreams : fclosed[h] = 0
    /\ \A h \in Handles : fclosed[h] <= 1 /\ (fclosed[h] = 1 => h \in fopened)
    /\ Exited => (Live = {} /\ \A h \in fopened : fclosed[h] = 1)

C10_Witness ==
    /\ Exited /\ exitcode = 1 /\ "fwrite" \in faults
    /\ fopened = {"IN", "OUT"} /\ fclosed["IN"] = 1 /\ fclosed["OUT"] = 1
    /\ idata # NULL /\ odata # NULL /\ Live = {}

====
